---- MODULE Spec2Model ----
(***************************************************************************)
(* Model of scripts/statement-miner.py: the HTML text extractor, the       *)
(* pattern normalizer, the special-character transliterator, the metrics   *)
(* aggregator and the statement pipeline driver.                           *)
(*                                                                         *)
(* A text is a sequence of characters.  A printable ASCII character is the *)
(* one-character string itself, the line feed is "NL", and a non-ASCII     *)
(* character is named by its code point ("U03B1" is GREEK SMALL LETTER     *)
(* ALPHA).  The grave accent (U+0060) is written "GRAVE", as a character   *)
(* and as a key of to_replace.                                             *)
(***************************************************************************)
EXTENDS Integers, Sequences, FiniteSets, TLC

VARIABLES
    \* special-character transliterator
    tIn, tOut1, tOut2, tPc,
    \* pattern normalizer
    cIn, cOut, cPc,
    \* HTML text extractor
    hIn, hOut, hPc,
    \* metrics aggregator
    mDir, mOut, mPc,
    \* statement pipeline driver: the dataset file, the two directories, the
    \* page of the external tool and the downloads it has not delivered yet
    enunciado_file, txt_dir, download_dir, inputText, downloading,
    \* the driver process: its position, the index of q in questoes, its
    \* locals, the error that ended it, the table it merged
    pc, pos, id_questao, enunciado, err, closed, merged,
    \* history: the number of this run, the kills so far, the submissions
    \* (id, run) in order, the renames (id, run) done, the merges of this run
    run, kills, submitted, renamed, merges

varsT == <<tIn, tOut1, tOut2, tPc>>
varsC == <<cIn, cOut, cPc>>
varsH == <<hIn, hOut, hPc>>
varsM == <<mDir, mOut, mPc>>
varsD == <<enunciado_file, txt_dir, download_dir, inputText, downloading,
           pc, pos, id_questao, enunciado, err, closed, merged,
           run, kills, submitted, renamed, merges>>

vars == <<tIn, tOut1, tOut2, tPc, cIn, cOut, cPc, hIn, hOut, hPc, mDir, mOut, mPc,
          enunciado_file, txt_dir, download_dir, inputText, downloading,
          pc, pos, id_questao, enunciado, err, closed, merged,
          run, kills, submitted, renamed, merges>>

(***************************************************************************)
(* Bounds of the model.                                                    *)
(***************************************************************************)
MaxLenT == 3
MaxFragsC == 3
MaxNodes == 2
MaxFiles == 2
MaxBlocks == 2
MaxKills == 1
MaxRuns == 2

(***************************************************************************)
(* Text helpers (Python str / re primitives).                              *)
(***************************************************************************)
\* the characters of the model matched by \s
Whitespace == {" ", "NL"}

RECURSIVE FlattenRange(_, _, _)
\* parts[lo] \o ... \o parts[hi]
FlattenRange(parts, lo, hi) ==
    IF lo > hi THEN <<>>
    ELSE IF lo = hi THEN parts[lo]
    ELSE LET mid == (lo + hi) \div 2
         IN  FlattenRange(parts, lo, mid) \o FlattenRange(parts, mid + 1, hi)

\* "".join(parts)
Flatten(parts) == FlattenRange(parts, 1, Len(parts))

RECURSIVE LStrip(_)
LStrip(s) ==
    IF s # <<>> /\ Head(s) \in Whitespace THEN LStrip(Tail(s)) ELSE s

RECURSIVE RStrip(_)
RStrip(s) ==
    IF s # <<>> /\ s[Len(s)] \in Whitespace
    THEN RStrip(SubSeq(s, 1, Len(s) - 1)) ELSE s

\* str.strip()
Strip(s) == LStrip(RStrip(s))

RECURSIVE CollapseWs(_)
\* re.sub(r"\s+", " ", s): every maximal whitespace run becomes one space
CollapseWs(s) ==
    IF s = <<>> THEN <<>>
    ELSE IF Head(s) \in Whitespace
         THEN <<" ">> \o CollapseWs(LStrip(s))
         ELSE <<Head(s)>> \o CollapseWs(Tail(s))

\* str.replace(c, r) for a one-character c
StrReplace(s, c, r) ==
    Flatten([k \in 1..Len(s) |-> IF s[k] = c THEN r ELSE <<s[k]>>])

\* the sequences over S of length at most n
BoundedSeq(S, n) == UNION {[1..k -> S] : k \in 0..n}

\* every order in which a loop may visit the finite set S
Orders(S) ==
    {o \in [1..Cardinality(S) -> S] : \A a, b \in 1..Cardinality(S) : o[a] = o[b] => a = b}

(***************************************************************************)
(* The transliteration table and the character classes.                    *)
(***************************************************************************)
\* to_replace, keyed as in the source by the unicode-escape of a character
to_replace ==
    ("\\u0131" :> <<"i">>) @@
    ("\\u0155" :> <<"r">>) @@
    ("\\u03b1" :> <<" ", "a", "l", "f", "a", " ">>) @@
    ("@" :> <<" ", "a", "r", "r", "o", "b", "a", " ">>) @@
    ("#" :> <<" ", "c", "e", "r", "q", "u", "i", "l", "h", "a", " ">>) @@
    ("\\u2206" :> <<" ", "d", "e", "l", "t", "a", " ">>) @@
    ("$" :> <<" ", "d", "U00F3", "l", "a", "r", " ">>) @@
    ("\\xb0" :> <<" ", "g", "r", "a", "u", "s", " ">>) @@
    ("\\u221e" :> <<" ", "i", "n", "f", "i", "n", "i", "t", "o", " ">>) @@
    ("\\u0142" :> <<" ", "l", "i", "b", "r", "a", " ">>) @@
    ("\\u2113" :> <<" ", "l", "i", "t", "r", "o", " ">>) @@
    ("\\u03c9" :> <<" ", "o", "h", "m", " ">>) @@
    ("\\xb2" :> <<" ", "a", "o", " ", "q", "u", "a", "d", "r", "a", "d", "o", " ">>) @@
    ("\\xb3" :> <<" ", "a", "o", " ", "c", "u", "b", "o", " ">>) @@
    ("\\u221a" :> <<" ", "r", "a", "i", "z", " ", "q", "u", "a", "d", "r", "a", "d", "a", " ">>) @@
    ("+" :> <<" ", "m", "a", "i", "s", " ">>) @@
    ("\\2212" :> <<" ", "m", "e", "n", "o", "s", " ">>) @@
    ("\\xd7" :> <<" ", "m", "u", "l", "t", "i", "p", "l", "i", "c", "a", "U00E7", "U00E3", "o", " ">>) @@
    ("=" :> <<" ", "i", "g", "u", "a", "l", " ">>) @@
    ("\\u2264" :> <<" ", "m", "e", "n", "o", "r", " ", "o", "u", " ", "i", "g", "u", "a", "l", " ">>) @@
    ("\\u2265" :> <<" ", "m", "a", "i", "o", "r", " ", "o", "u", " ", "i", "g", "u", "a", "l", " ", "q", "u", "e", " ">>) @@
    ("\\u22c5" :> <<" ">>) @@
    ("\\u2219" :> <<" ">>) @@
    ("\\xb7" :> <<" ">>) @@
    (">" :> <<" ", "m", "a", "i", "o", "r", " ", "q", "u", "e", " ">>) @@
    ("\\u03c0" :> <<" ", "p", "i", " ">>) @@
    ("\\xf7" :> <<" ", "d", "i", "v", "i", "s", "U00E3", "o", " ">>) @@
    ("<" :> <<" ", "m", "e", "n", "o", "r", " ", "q", "u", "e", " ">>) @@
    ("/" :> <<" ">>) @@
    ("\\\\" :> <<" ">>) @@
    ("|" :> <<" ">>) @@
    ("\\u2192" :> <<" ">>) @@
    ("\\u2013" :> <<" ">>) @@
    ("'" :> <<" ">>) @@
    ("\\u2019" :> <<" ">>) @@
    ("\\u2018" :> <<" ">>) @@
    ("\"" :> <<" ">>) @@
    ("\\u201c" :> <<" ">>) @@
    ("\\u201d" :> <<" ">>) @@
    ("\\xb4" :> <<" ">>) @@
    ("GRAVE" :> <<" ">>) @@
    ("^" :> <<" ">>) @@
    ("&" :> <<" ">>) @@
    (";" :> <<".", " ">>) @@
    ("_" :> <<" ">>) @@
    ("\\u2026" :> <<" ">>)

\* c.encode('unicode-escape') for the non-ASCII characters of the model
NonAsciiEscape ==
    ("U00B0" :> "\\xb0") @@
    ("U00B2" :> "\\xb2") @@
    ("U00B3" :> "\\xb3") @@
    ("U00B4" :> "\\xb4") @@
    ("U00B7" :> "\\xb7") @@
    ("U00D7" :> "\\xd7") @@
    ("U00E0" :> "\\xe0") @@
    ("U00E1" :> "\\xe1") @@
    ("U00E2" :> "\\xe2") @@
    ("U00E3" :> "\\xe3") @@
    ("U00E7" :> "\\xe7") @@
    ("U00E8" :> "\\xe8") @@
    ("U00E9" :> "\\xe9") @@
    ("U00EA" :> "\\xea") @@
    ("U00EC" :> "\\xec") @@
    ("U00ED" :> "\\xed") @@
    ("U00EE" :> "\\xee") @@
    ("U00F1" :> "\\xf1") @@
    ("U00F2" :> "\\xf2") @@
    ("U00F3" :> "\\xf3") @@
    ("U00F4" :> "\\xf4") @@
    ("U00F5" :> "\\xf5") @@
    ("U00F7" :> "\\xf7") @@
    ("U00F9" :> "\\xf9") @@
    ("U00FA" :> "\\xfa") @@
    ("U00FB" :> "\\xfb") @@
    ("U0129" :> "\\u0129") @@
    ("U0131" :> "\\u0131") @@
    ("U0142" :> "\\u0142") @@
    ("U0155" :> "\\u0155") @@
    ("U0169" :> "\\u0169") @@
    ("U03B1" :> "\\u03b1") @@
    ("U03C0" :> "\\u03c0") @@
    ("U03C9" :> "\\u03c9") @@
    ("U1EBD" :> "\\u1ebd") @@
    ("U2013" :> "\\u2013") @@
    ("U2018" :> "\\u2018") @@
    ("U2019" :> "\\u2019") @@
    ("U201C" :> "\\u201c") @@
    ("U201D" :> "\\u201d") @@
    ("U2026" :> "\\u2026") @@
    ("U2113" :> "\\u2113") @@
    ("U2192" :> "\\u2192") @@
    ("U2206" :> "\\u2206") @@
    ("U2212" :> "\\u2212") @@
    ("U2219" :> "\\u2219") @@
    ("U221A" :> "\\u221a") @@
    ("U221E" :> "\\u221e") @@
    ("U2264" :> "\\u2264") @@
    ("U2265" :> "\\u2265") @@
    ("U22C5" :> "\\u22c5")

\* c.encode('unicode-escape'): a printable ASCII character encodes to itself,
\* the backslash is doubled, the line feed is \n, others are \xNN or \uNNNN
UnicodeEscape(c) ==
    IF c \in DOMAIN NonAsciiEscape THEN NonAsciiEscape[c]
    ELSE IF c = "\\" THEN "\\\\"
    ELSE IF c = "NL" THEN "\\n"
    ELSE c

\* the characters of the model matched by [\w\d...] under re.I (a str
\* pattern: \w is Unicode-aware, so it matches every alphanumeric character)
WordClass ==
    {"0", "1", "2", "3", "4", "5", "6", "7", "8", "9", "A", "B", "L", "R", "_", "a", "b", "c", "d", "e", "f", "g", "h", "i", "l", "m", "n", "o", "p", "q", "r", "s", "t", "u", "v", "x", "z", "U00B2", "U00B3", "U00E0", "U00E1", "U00E2", "U00E3", "U00E7", "U00E8", "U00E9", "U00EA", "U00EC", "U00ED", "U00EE", "U00F1", "U00F2", "U00F3", "U00F4", "U00F5", "U00F9", "U00FA", "U00FB", "U0129", "U0131", "U0142", "U0155", "U0169", "U03B1", "U03C0", "U03C9", "U1EBD", "U2113"}

\* the characters that own a key of to_replace
KeyChars ==
    {"\"", "#", "$", "&", "'", "+", "/", ";", "<", "=", ">", "@", "\\", "^", "_", "GRAVE", "|", "U00B0", "U00B2", "U00B3", "U00B4", "U00B7", "U00D7", "U00F7", "U0131", "U0142", "U0155", "U03B1", "U03C0", "U03C9", "U2013", "U2018", "U2019", "U201C", "U201D", "U2026", "U2113", "U2192", "U2206", "U2219", "U221A", "U221E", "U2264", "U2265", "U22C5"}

\* the characters of the model
Universe ==
    {"NL", " ", "\"", "#", "$", "%", "&", "'", "(", ")", "+", ",", "-", ".", "/", "0", "1", "2", "3", "4", "5", "6", "7", "8", "9", ":", ";", "<", "=", ">", "@", "A", "B", "L", "R", "[", "\\", "]", "^", "_", "GRAVE", "a", "b", "c", "d", "e", "f", "g", "h", "i", "l", "m", "n", "o", "p", "q", "r", "s", "t", "u", "v", "x", "z", "{", "|", "}", "U00B0", "U00B2", "U00B3", "U00B4", "U00B7", "U00D7", "U00E0", "U00E1", "U00E2", "U00E3", "U00E7", "U00E8", "U00E9", "U00EA", "U00EC", "U00ED", "U00EE", "U00F1", "U00F2", "U00F3", "U00F4", "U00F5", "U00F7", "U00F9", "U00FA", "U00FB", "U0129", "U0131", "U0142", "U0155", "U0169", "U03B1", "U03C0", "U03C9", "U1EBD", "U2013", "U2018", "U2019", "U201C", "U201D", "U2026", "U2113", "U2192", "U2206", "U2212", "U2219", "U221A", "U221E", "U2264", "U2265", "U22C5"}

\* set(re.sub(r"[\w\d...]", "", text, flags=re.I))
Caracteres(text) == {text[k] : k \in DOMAIN text} \ WordClass

\* a table whose entry for "$" brings the character back
ReplacementWithDollar(c) ==
    IF c = "$" THEN <<" ", "R", "$", " ">> ELSE to_replace[UnicodeEscape(c)]

\* to_replace[c.encode('unicode-escape')]
Replacement(c) == to_replace[UnicodeEscape(c)]

RECURSIVE ReplaceLoop(_, _)
\* for c in caracteres: if c.encode(..) in to_replace: text = text.replace(..)
ReplaceLoop(text, order) ==
    IF order = <<>> THEN text
    ELSE LET c == Head(order)
             t == IF UnicodeEscape(c) \in DOMAIN to_replace
                  THEN StrReplace(text, c, Replacement(c))
                  ELSE text
         IN  ReplaceLoop(t, Tail(order))

\* remove_special_chars(text), the set being visited in the given order
remove_special_chars(text, order) ==
    Strip(CollapseWs(ReplaceLoop(text, order)))

\* every result remove_special_chars(text) can give (the set's iteration
\* order is not fixed by the language)
RemoveSpecialCharsResults(text) ==
    {remove_special_chars(text, o) : o \in Orders(Caracteres(text))}

(***************************************************************************)
(* Regular expressions (Python re, backtracking, flags=re.I).  A pattern   *)
(* is a term; Ends(p, t, i) is the sequence of positions at which a match  *)
(* of p that starts at position i of t can end, in the order in which the  *)
(* backtracking matcher tries them: its head is the match re takes.        *)
(***************************************************************************)
In(S) == [op |-> "set", chars |-> S]
Lit(c) == In({c})
Cat(items) == [op |-> "cat", items |-> items]
Alt(items) == [op |-> "alt", items |-> items]
Word(w) == Cat([k \in 1..Len(w) |-> Lit(w[k])])
\* w1|w2|... for literal words
AnyOf(words) == [op |-> "words", words |-> words]
\* p{lo,hi}, p{lo,} and their lazy forms p{lo,hi}?, p{lo,}?
Rep(p, lo, hi) == [op |-> "rep", of |-> p, lo |-> lo, hi |-> hi, open |-> FALSE, lazy |-> FALSE]
RepFrom(p, lo) == [op |-> "rep", of |-> p, lo |-> lo, hi |-> 0, open |-> TRUE, lazy |-> FALSE]
LazyRep(p, lo, hi) == [op |-> "rep", of |-> p, lo |-> lo, hi |-> hi, open |-> FALSE, lazy |-> TRUE]
LazyFrom(p, lo) == [op |-> "rep", of |-> p, lo |-> lo, hi |-> 0, open |-> TRUE, lazy |-> TRUE]
\* \b, (?<!c) and (?!p)
WordBoundary == [op |-> "wordb"]
NotBehind(S) == [op |-> "notbehind", chars |-> S]
NotAhead(p) == [op |-> "notahead", of |-> p]

IsWordAt(t, i) == i >= 1 /\ i <= Len(t) /\ t[i] \in WordClass

\* the k-th least element of a set of numbers
Nth(S, k) == CHOOSE m \in S : Cardinality({j \in S : j < m}) = k - 1

\* the positions of ends in their order, each kept where it comes first
Distinct(ends) ==
    LET first == {k \in 1..Len(ends) : \A j \in 1..(k - 1) : ends[j] # ends[k]}
    IN  [n \in 1..Cardinality(first) |-> ends[Nth(first, n)]]

\* for p = w1|w2|...: the ends from position i, in the order of the words
WordEnds(p, t, i) ==
    LET hit == {k \in 1..Len(p.words) :
                  /\ i + Len(p.words[k]) <= Len(t) + 1
                  /\ \A j \in 1..Len(p.words[k]) : t[i + j - 1] = p.words[k][j]}
    IN  [n \in 1..Cardinality(hit) |-> i + Len(p.words[Nth(hit, n)])]

\* for p = [chars]{lo,hi} and its open and lazy forms: the ends from position
\* i, the longest first (the shortest first when lazy)
RunEnds(p, t, i) ==
    LET span == CHOOSE n \in 0..(Len(t) + 1 - i) :
                  /\ \A j \in i..(i + n - 1) : t[j] \in p.of.chars
                  /\ i + n > Len(t) \/ t[i + n] \notin p.of.chars
        most == IF p.open \/ span < p.hi THEN span ELSE p.hi
    IN  [k \in 1..(most - p.lo + 1) |->
            IF p.lazy THEN i + p.lo + k - 1 ELSE i + most - k + 1]

\* the least of a non-empty sequence of positions
Least(starts) ==
    CHOOSE m \in {starts[k] : k \in 1..Len(starts)} :
        \A k \in 1..Len(starts) : m <= starts[k]

\* the ends listed by tab for each of the start positions, in their order
Follow(tab, starts) == Flatten([k \in 1..Len(starts) |-> tab[starts[k]]])

RECURSIVE Ends(_, _, _)
RECURSIVE EndsFromAll(_, _, _)
RECURSIVE StarTable(_, _, _, _)
RECURSIVE EndsOfItems(_, _, _, _)

\* the ends of items[k], items[k + 1], ... in a row, from each of the starts
EndsOfItems(items, k, t, starts) ==
    IF k > Len(items) \/ starts = <<>> THEN starts
    ELSE EndsOfItems(items, k + 1, t, Distinct(EndsFromAll(items[k], t, starts)))

\* the ends of p from each of the start positions, in their order
EndsFromAll(p, t, starts) ==
    IF starts = <<>> THEN <<>>
    ELSE IF Len(starts) = 1 THEN Ends(p, t, starts[1])
    ELSE IF p.op = "rep" /\ p.open /\ p.lo = 0 /\ p.of.op # "set"
    THEN Follow(StarTable(p, t, Least(starts), <<>>), starts)
    ELSE Ends(p, t, Head(starts)) \o EndsFromAll(p, t, Tail(starts))

\* for p = q{0,} (or q{0,}?): tab extended, from position i down to position
\* from, by the ends of p at each position; an iteration of q that consumes
\* nothing is not repeated
StarTable(p, t, from, tab) ==
    LET i    == Len(t) + 1 - Cardinality(DOMAIN tab)
        one  == SelectSeq(Ends(p.of, t, i), LAMBDA e : e > i)
        more == Follow(tab, one)
        here == Distinct(IF p.lazy THEN <<i>> \o more ELSE more \o <<i>>)
    IN  IF i < from THEN tab
        ELSE StarTable(p, t, from, (i :> here) @@ tab)

Ends(p, t, i) ==
    CASE p.op = "set" ->
            IF i <= Len(t) /\ t[i] \in p.chars THEN <<i + 1>> ELSE <<>>
      [] p.op = "words" -> Distinct(WordEnds(p, t, i))
      [] p.op = "cat" -> EndsOfItems(p.items, 1, t, <<i>>)
      [] p.op = "alt" ->
            Distinct(Flatten([k \in 1..Len(p.items) |-> Ends(p.items[k], t, i)]))
      [] p.op = "rep" ->
            IF p.of.op = "set" THEN RunEnds(p, t, i)
            ELSE IF p.open /\ p.lo = 0
            THEN StarTable(p, t, i, <<>>)[i]
            ELSE LET one  == SelectSeq(Ends(p.of, t, i), LAMBDA e : e > i)
                     next == [p EXCEPT !.lo = IF p.lo > 0 THEN p.lo - 1 ELSE 0,
                                       !.hi = IF p.open THEN p.hi ELSE p.hi - 1]
                     more == IF p.open \/ p.hi > 0 THEN EndsFromAll(next, t, one) ELSE <<>>
                     stop == IF p.lo = 0 THEN <<i>> ELSE <<>>
                 IN  Distinct(IF p.lazy THEN stop \o more ELSE more \o stop)
      [] p.op = "wordb" ->
            IF IsWordAt(t, i - 1) # IsWordAt(t, i) THEN <<i>> ELSE <<>>
      [] p.op = "notbehind" ->
            IF i > 1 /\ t[i - 1] \in p.chars THEN <<>> ELSE <<i>>
      [] p.op = "notahead" ->
            IF Ends(p.of, t, i) # <<>> THEN <<>> ELSE <<i>>

RECURSIVE SubFrom(_, _, _, _)
\* re.sub from position i on: the leftmost match is replaced and the scan
\* goes on after it; a character no match starts at is copied
SubFrom(p, repl, t, i) ==
    IF i > Len(t) THEN (IF Ends(p, t, i) # <<>> THEN repl ELSE <<>>)
    ELSE LET e == Ends(p, t, i)
         IN  IF e = <<>> THEN <<t[i]>> \o SubFrom(p, repl, t, i + 1)
             ELSE IF Head(e) > i THEN repl \o SubFrom(p, repl, t, Head(e))
             ELSE repl \o <<t[i]>> \o SubFrom(p, repl, t, i + 1)

\* re.sub(pattern, replace, text, flags=re.I)
ReSub(p, repl, t) == SubFrom(p, repl, t, 1)

(***************************************************************************)
(* The patterns of config.  Every character class, every literal and every *)
(* alternative is restricted to the characters of ModelCharsC that can     *)
(* stand in the text at its stage: an alternative spelled with another     *)
(* character matches no text of the model and is left out.                 *)
(***************************************************************************)
\* \d
Digit ==
    {"0", "1", "2", "3", "4", "5", "6", "7", "8", "9"}

\* . (any character but the line feed)
AnyChar ==
    {" ", "$", "%", "(", ")", ",", ".", "/", "0", "1", "2", "3", "4", "5", "6", "7", "8", "9", ":", "B", "L", "R", "[", "\\", "]", "a", "c", "d", "e", "f", "h", "l", "m", "n", "o", "p", "r", "s", "t", "x", "{", "}", "U00FA"}

\* [a-z0-9] under re.I, in a lower-cased text
LowerAlnum ==
    {"0", "1", "2", "3", "4", "5", "6", "7", "8", "9", "a", "c", "d", "e", "f", "h", "p", "r", "s", "t", "x"}

\* [^\s]
NotSpace ==
    {"$", "%", "(", ")", ",", ".", "/", "0", "1", "2", "3", "4", "5", "6", "7", "8", "9", ":", "[", "\\", "]", "a", "c", "d", "e", "f", "h", "p", "r", "s", "t", "x", "{", "}"}

\* [^\s()]
NotSpaceParen ==
    {"$", "%", ",", ".", "/", "0", "1", "2", "3", "4", "5", "6", "7", "8", "9", ":", "[", "\\", "]", "a", "c", "d", "e", "f", "h", "p", "r", "s", "t", "x", "{", "}"}

\* config['url_pattern'] (the pattern holds its line breaks and tabs: it is
\* compiled without re.X)
url_pattern ==
    Cat(<<WordBoundary,
          Alt(<<Cat(<<Alt(<<Cat(<<Word(<<"h", "t", "t", "p">>),
                                  Rep(Lit("s"), 0, 1),
                                  Lit(":"),
                                  Alt(<<Rep(Lit("/"), 1, 3),
                                        In({"%", "0", "1", "2", "3", "4", "5", "6", "7", "8", "9", "a", "c", "d", "e", "f", "h", "p", "r", "s", "t", "x"})>>)>>),
                            Cat(<<RepFrom(In({".", "0", "1", "2", "3", "4", "5", "6", "7", "8", "9", "a", "c", "d", "e", "f", "h", "p", "r", "s", "t", "x"}), 1),
                                  Lit("."),
                                  AnyOf(<<<<"c", "a", "t">>, <<"x", "x", "x">>, <<"a", "c">>,
                                          <<"a", "d">>, <<"a", "f">>, <<"a", "r">>, <<"a", "s">>,
                                          <<"a", "t">>, <<"a", "x">>, <<"c", "a">>, <<"c", "c">>,
                                          <<"c", "f">>, <<"c", "h">>, <<"c", "r">>, <<"c", "s">>,
                                          <<"c", "x">>, <<"d", "d">>, <<"d", "e">>, <<"e", "c">>,
                                          <<"e", "e">>, <<"e", "h">>, <<"e", "r">>, <<"e", "s">>,
                                          <<"e", "t">>, <<"h", "r">>, <<"h", "t">>, <<"p", "a">>,
                                          <<"p", "e">>, <<"p", "f">>, <<"p", "h">>, <<"p", "r">>,
                                          <<"p", "s">>, <<"p", "t">>, <<"r", "e">>, <<"r", "s">>,
                                          <<"s", "a">>, <<"s", "c">>, <<"s", "d">>, <<"s", "e">>,
                                          <<"s", "h">>, <<"s", "r">>, <<"s", "s">>, <<"s", "t">>,
                                          <<"s", "x">>, <<"t", "c">>, <<"t", "d">>, <<"t", "f">>,
                                          <<"t", "h">>, <<"t", "p">>, <<"t", "r">>, <<"t", "t">>>>),
                                  Lit("/")>>)>>),
                      RepFrom(Alt(<<RepFrom(In({"$", "%", ",", ".", "/", "0", "1", "2", "3", "4", "5", "6", "7", "8", "9", ":", "\\", "a", "c", "d", "e", "f", "h", "p", "r", "s", "t", "x"}), 1),
                                Cat(<<Lit("("),
                                      LazyFrom(In({"NL", " ", "(", ")"}), 0),
                                      Lit("("),
                                      RepFrom(In(NotSpaceParen), 1),
                                      Lit(")"),
                                      LazyFrom(In(NotSpaceParen), 0),
                                      Lit(")")>>),
                                Cat(<<Lit("("),
                                      LazyFrom(In(NotSpace), 1),
                                      Lit(")")>>)>>), 1),
                      Alt(<<Cat(<<Lit("("),
                                  LazyFrom(In(NotSpaceParen), 0),
                                  Lit("("),
                                  RepFrom(In(NotSpaceParen), 1),
                                  Lit(")"),
                                  LazyFrom(In(NotSpaceParen), 0),
                                  Lit(")")>>),
                            Cat(<<Lit("("),
                                  LazyFrom(In(NotSpace), 1),
                                  Lit(")")>>),
                            In({"$", "%", "/", "0", "1", "2", "3", "4", "5", "6", "7", "8", "9", "\\", "a", "c", "d", "e", "f", "h", "p", "r", "s", "t", "x"})>>)>>),
                Cat(<<RepFrom(In(LowerAlnum), 1),
                      RepFrom(Cat(<<Lit("."),
                                RepFrom(In(LowerAlnum), 1)>>), 0),
                      Lit("."),
                      AnyOf(<<<<"c", "a", "t">>, <<"x", "x", "x">>, <<"a", "c">>,
                              <<"a", "d">>, <<"a", "f">>, <<"a", "r">>, <<"a", "s">>,
                              <<"a", "t">>, <<"a", "x">>, <<"c", "a">>, <<"c", "c">>,
                              <<"c", "f">>, <<"c", "h">>, <<"c", "r">>, <<"c", "s">>,
                              <<"c", "x">>, <<"d", "d">>, <<"d", "e">>, <<"e", "c">>,
                              <<"e", "e">>, <<"e", "h">>, <<"e", "r">>, <<"e", "s">>,
                              <<"e", "t">>, <<"h", "r">>, <<"h", "t">>, <<"p", "a">>,
                              <<"p", "e">>, <<"p", "f">>, <<"p", "h">>, <<"p", "r">>,
                              <<"p", "s">>, <<"p", "t">>, <<"r", "e">>, <<"r", "s">>,
                              <<"s", "a">>, <<"s", "c">>, <<"s", "d">>, <<"s", "e">>,
                              <<"s", "h">>, <<"s", "r">>, <<"s", "s">>, <<"s", "t">>,
                              <<"s", "x">>, <<"t", "c">>, <<"t", "d">>, <<"t", "f">>,
                              <<"t", "h">>, <<"t", "p">>, <<"t", "r">>, <<"t", "t">>>>),
                      WordBoundary,
                      Rep(Lit("/"), 0, 1)>>)>>)>>)

\* config['latex_patterns']
latex_patterns ==
    <<Cat(<<Word(<<"\\", "[">>),
            LazyFrom(In(AnyChar), 1),
            Word(<<"\\", "]">>)>>),
      Cat(<<Word(<<"\\", "(">>),
            LazyFrom(In(AnyChar), 1),
            Word(<<"\\", ")">>)>>),
      Cat(<<Word(<<"\\", "f", "r", "a", "c", "{">>),
            RepFrom(In(LowerAlnum), 1),
            Word(<<"}", "{">>),
            RepFrom(In(LowerAlnum), 1),
            Lit("}")>>)>>

\* config['numerical_patterns']
numerical_patterns ==
    <<Cat(<<RepFrom(In(Digit), 1),
            Rep(Cat(<<Lit(","),
                      RepFrom(In(Digit), 1)>>), 0, 1),
            Lit("%")>>),
      Cat(<<RepFrom(In(Digit), 1),
            Rep(Cat(<<In(AnyChar),
                      Rep(In(Digit), 3, 3)>>), 0, 1),
            Rep(Cat(<<Lit(","),
                      RepFrom(In(Digit), 1)>>), 0, 1)>>)>>

\* config['currency_patterns']
currency_patterns ==
    <<Cat(<<In({"R", "r"}),
            Lit("$"),
            Rep(In(Whitespace), 0, 1),
            Rep(In(Digit), 1, 3),
            RepFrom(Cat(<<Lit("."),
                      Rep(In(Digit), 3, 3)>>), 0),
            Lit(","),
            RepFrom(In(Digit), 1)>>)>>

\* the characters a text of the normalizer is made of
ModelCharsC ==
    {"NL", " ", "$", "%", "(", ")", ",", ".", "/", "0", "1", "2", "3", "4", "5", "6", "7", "8", "9", ":", "B", "L", "R", "[", "\\", "]", "a", "c", "d", "e", "f", "h", "l", "m", "n", "o", "p", "r", "s", "t", "x", "{", "}", "U00FA"}

(***************************************************************************)
(* HTML text extractor and pattern normalizer.  An HTML input is given as  *)
(* BeautifulSoup parses it: the sequence of its text nodes in document     *)
(* order, each with the name of its parent element, whether it is a        *)
(* Comment, and its text.                                                  *)
(***************************************************************************)
\* tag_visible(element)
tag_visible(element) ==
    IF element.parent \in {"style", "script", "head", "title", "meta", "[document]"}
    THEN FALSE
    ELSE IF element.comment THEN FALSE
    ELSE TRUE

RECURSIVE Join(_, _)
\* sep.join(parts)
Join(parts, sep) ==
    IF parts = <<>> THEN <<>>
    ELSE IF Len(parts) = 1 THEN Head(parts)
    ELSE Head(parts) \o sep \o Join(Tail(parts), sep)

\* soup.findAll(text=True): every text node, comments included
FindAllText(html) == html

\* text_from_html(html)
text_from_html(html) ==
    LET elements == FindAllText(html)
    IN  Join([k \in 1..Len(elements) |-> Strip(elements[k].text)], <<" ">>)

\* str.lower() on the characters of the model
LowerChar(c) ==
    CASE c = "A" -> "a" [] c = "B" -> "b" [] c = "L" -> "l" [] c = "R" -> "r"
      [] OTHER -> c

Lower(t) == [k \in 1..Len(t) |-> LowerChar(t[k])]

\* the element of a one-element set
TheOne(S) == CHOOSE v \in S : TRUE

RECURSIVE replace_by_patterns(_, _, _)
\* replace_by_patterns(patterns, replace, text): text = re.sub(p, replace,
\* text) for each p of patterns in turn
replace_by_patterns(patterns, replace, text) ==
    IF patterns = <<>> THEN text
    ELSE TheOne({replace_by_patterns(Tail(patterns), replace, v) :
                    v \in {ReSub(Head(patterns), replace, text)}})

LatexToken == <<" ", "l", "a", "t", "e", "x", " ">>
BrlToken == <<" ", "B", "R", "L", " ">>
NumeroToken == <<" ", "n", "U00FA", "m", "e", "r", "o", " ">>

\* clean_enunciado(html), one assignment of the source per line
clean_enunciado(html) ==
    LET s0 == {Lower(text_from_html(html))}
        s1 == {replace_by_patterns(<<url_pattern>>, <<>>, v) : v \in s0}
        s2 == {replace_by_patterns(latex_patterns, LatexToken, v) : v \in s1}
        s3 == {replace_by_patterns(currency_patterns, BrlToken, v) : v \in s2}
        s4 == {replace_by_patterns(numerical_patterns, NumeroToken, v) : v \in s3}
        s5 == {CollapseWs(v) : v \in s4}
    IN  TheOne({Strip(v) : v \in s5})

(***************************************************************************)
(* Metrics aggregator.  A directory entry is a file name (base and         *)
(* extension) and the table pd.read_csv loads from it; after the columns   *)
(* 'Unnamed: 0' and 'Group' are dropped a table is a sequence of rows      *)
(* (Metric, Value).  The merged frame is its index (the metric names) and  *)
(* its columns in order, each a label and a sequence of values.            *)
(***************************************************************************)
\* entry.name.replace('.csv', '')
ColumnLabel(name) == name.base

\* df[label] = values: an existing column is overwritten in place, a new one
\* is appended
SetColumn(cols, label, values) ==
    IF \E k \in 1..Len(cols) : cols[k].label = label
    THEN [k \in 1..Len(cols) |->
            IF cols[k].label = label THEN [label |-> label, values |-> values] ELSE cols[k]]
    ELSE Append(cols, [label |-> label, values |-> values])

RECURSIVE MergeLoop(_, _)
\* the body of "for entry in entries" over the entries still to visit; a
\* value sequence that is not as long as the index raises ValueError
MergeLoop(df, entries) ==
    IF entries = <<>> \/ df.error # "none" THEN df
    ELSE LET entry   == Head(entries)
             Metric  == [k \in 1..Len(entry.table) |-> entry.table[k].Metric]
             Value   == [k \in 1..Len(entry.table) |-> entry.table[k].Value]
             started == IF df.none
                        THEN [none |-> FALSE, index |-> Metric, cols |-> <<>>, error |-> "none"]
                        ELSE df
         IN  IF Len(Value) # Len(started.index)
             THEN [started EXCEPT !.error = "ValueError"]
             ELSE MergeLoop([started EXCEPT !.cols = SetColumn(started.cols, ColumnLabel(entry.name), Value)],
                            Tail(entries))

\* merge_metrix_files(path, merged_filename), os.scandir listing the
\* directory in the given order: the table written to merged_filename, one
\* row per column of df (df.T), or the error raised
merge_metrix_files(entries) ==
    LET df == MergeLoop([none |-> TRUE, index |-> <<>>, cols |-> <<>>, error |-> "none"], entries)
    IN  IF df.error # "none" THEN [error |-> df.error, columns |-> <<>>, rows |-> <<>>]
        ELSE IF df.none THEN [error |-> "AttributeError", columns |-> <<>>, rows |-> <<>>]
        ELSE [error |-> "none", columns |-> df.index,
              rows |-> [k \in 1..Len(df.cols) |-> [id |-> df.cols[k].label, values |-> df.cols[k].values]]]

(***************************************************************************)
(* Statement pipeline driver.  The dataset file is a sequence of           *)
(* characters and of the two delimiters, each one token.  A directory is   *)
(* a function from file names to entries; a file name is its base and its  *)
(* extension.  A metrics file carries the table of the external tool and   *)
(* the id of the submission the tool computed it for.                      *)
(***************************************************************************)
BlockDelimiter == "#!#!#"
FieldDelimiter == "#;#;#"

\* str.split(d) for the delimiter token d
SplitOn(s, d) ==
    LET at   == {k \in 1..Len(s) : s[k] = d}
        cut  == [n \in 0..(Cardinality(at) + 1) |->
                    IF n = 0 THEN 0
                    ELSE IF n > Cardinality(at) THEN Len(s) + 1
                    ELSE Nth(at, n)]
    IN  [n \in 1..(Cardinality(at) + 1) |-> SubSeq(s, cut[n - 1] + 1, cut[n] - 1)]

\* questoes = ''.join(exercicios.readlines()).split('#!#!#')
Questoes(file) == SplitOn(file, BlockDelimiter)

\* a guard that does not strip the block
BlockIsEmpty(q) == Len(q) = 0

\* len(q.strip()) > 0 fails
BlockIsBlank(q) == Len(Strip(q)) = 0

\* config['coh_metrix_port_download_filename'] in download_dir
Filename == [base |-> <<"d", "a", "t", "a">>, ext |-> ".csv"]

\* the name the browser gives a download when data.csv is taken
FilenameTaken == [base |-> <<"d", "a", "t", "a", " ", "(", "1", ")">>, ext |-> ".csv"]

\* f'{download_dir}/{id_questao}.csv', the file the resume check looks for
CheckedFile(id) == [base |-> id, ext |-> ".csv"]

\* f'{download_dir}/{id_questao}', the file the download is renamed to
NewFile(id) == [base |-> id, ext |-> ""]

\* BeautifulSoup(html, 'html.parser') on markup without tags: one text node
ParseHtml(markup) ==
    << [parent |-> "[document]", comment |-> FALSE, text |-> markup] >>

\* the table Coh-Metrix-Port exports for a submitted text
CohMetrix(text) == <<[Metric |-> "m1", Value |-> Len(text)]>>

\* os.path.exists(file)
Exists(dir, file) == file \in DOMAIN dir

\* a poll loop that does not wait
GivesUp(dir, original_file) == FALSE

\* while not os.path.exists(original_file): the poll loop sleeps once more
KeepsPolling(dir, original_file) == ~Exists(dir, original_file)

\* os.path.isfile(original_file)
IsFile(dir, original_file) ==
    original_file \in DOMAIN dir /\ dir[original_file].kind = "file"

\* os.rename(original_file, new_file)
Rename(dir, original_file, new_file) ==
    [name \in (DOMAIN dir \ {original_file}) \cup {new_file} |->
        IF name = new_file THEN dir[original_file] ELSE dir[name]]

\* the files of a directory as pd.read_csv loads them
Entries(dir) == {[name |-> name, table |-> dir[name].table] : name \in DOMAIN dir}

\* enunciado = remove_special_chars(clean_enunciado(enunciado)), for each
\* order in which the set of special characters can be visited
Enunciados(markup) == RemoveSpecialCharsResults(clean_enunciado(ParseHtml(markup)))

(***************************************************************************)
(* Special-character transliterator: remove_special_chars applied once,    *)
(* then again to its own result.                                           *)
(***************************************************************************)
CoreAlphabetT == {"a", " ", "$", ";", "_", "U03B1", "-"}

TranslitInputs ==
    BoundedSeq(CoreAlphabetT, MaxLenT)
        \cup {<<c>> : c \in Universe}
        \cup {<<c, d>> : c \in KeyChars, d \in {"a", " ", "="}}

InitT ==
    /\ tIn \in TranslitInputs
    /\ tOut1 = <<>>
    /\ tOut2 = <<>>
    /\ tPc = "in"

IdleT ==
    /\ tIn = <<>>
    /\ tOut1 = <<>>
    /\ tOut2 = <<>>
    /\ tPc = "idle"

TApply ==
    /\ tPc = "in"
    /\ \E r \in RemoveSpecialCharsResults(tIn) : tOut1' = r
    /\ tPc' = "once"
    /\ UNCHANGED <<tIn, tOut2>>

TApplyAgain ==
    /\ tPc = "once"
    /\ \E r \in RemoveSpecialCharsResults(tOut1) : tOut2' = r
    /\ tPc' = "twice"
    /\ UNCHANGED <<tIn, tOut1>>

(***************************************************************************)
(* C5.  Idempotence of the transliterator with the shipped table: a second *)
(* application of remove_special_chars changes nothing.                    *)
(***************************************************************************)
C5_Idempotent == tPc = "twice" => tOut2 = tOut1

\* a replacement (";" by ". ") has put a character outside the allow-listed
\* class into the text, and the second pass has run over it
C5_Witness ==
    /\ tPc = "twice"
    /\ \E k \in DOMAIN tIn : tIn[k] = ";"
    /\ \E k \in DOMAIN tOut1 : tOut1[k] = "."
    /\ tOut1 # tIn

(***************************************************************************)
(* C8.  Per-character contract: a character of the allow-listed class      *)
(* (ASCII letters, digits, underscore, the listed accented letters) is     *)
(* kept; any other character with a table entry is replaced by its mapped  *)
(* string; any other character is kept; the result is single-spaced and    *)
(* trimmed and holds none of $ @ # < >.                                    *)
(***************************************************************************)
ClaimClass ==
    {"0", "1", "2", "3", "4", "5", "6", "7", "8", "9", "A", "B", "L", "R", "_",
     "a", "b", "c", "d", "e", "f", "g", "h", "i", "l", "m", "n", "o", "p",
     "q", "r", "s", "t", "u", "v", "x", "z",
     "U00E1", "U00E9", "U00ED", "U00F3", "U00FA", "U00E0", "U00E8", "U00EC",
     "U00F2", "U00F9", "U00E2", "U00EA", "U00EE", "U00F4", "U00FB", "U00E3",
     "U1EBD", "U0129", "U00F5", "U0169", "U00E7"}

ClaimTranslit(text) ==
    Strip(CollapseWs(Flatten(
        [k \in 1..Len(text) |->
            IF text[k] \notin ClaimClass /\ UnicodeEscape(text[k]) \in DOMAIN to_replace
            THEN to_replace[UnicodeEscape(text[k])]
            ELSE <<text[k]>>])))

SingleSpaced(s) ==
    /\ s # <<>> => (s[1] \notin Whitespace /\ s[Len(s)] \notin Whitespace)
    /\ \A k \in 1..(Len(s) - 1) : ~(s[k] \in Whitespace /\ s[k + 1] \in Whitespace)

C8_PerCharContract ==
    tPc # "in" =>
        /\ tOut1 = ClaimTranslit(tIn)
        /\ SingleSpaced(tOut1)
        /\ \A k \in DOMAIN tOut1 : tOut1[k] \notin {"$", "@", "#", "<", ">"}

(***************************************************************************)
(* Pattern normalizer: clean_enunciado applied to a statement whose markup *)
(* is one text node, put together from fragments of statements.            *)
(***************************************************************************)
FragmentsC ==
    {<<"R", "$">>, <<"R", "$", " ">>, <<"1">>, <<"1", "2", "3", "4">>,
     <<"1", ".", "2", "3", "4">>, <<".", "5", "6", "7">>, <<",", "5", "6">>,
     <<"%">>, <<" ", "e", " ">>, <<" ", "d", "e", " ">>,
     <<"\\", "(", "x", "\\", ")">>,
     <<"e", ".", "d", "e", "/", "x">>}

InputsC == {Flatten(fs) : fs \in BoundedSeq(FragmentsC, MaxFragsC)}

TextNode(text) == [parent |-> "p", comment |-> FALSE, text |-> text]

InitC ==
    /\ cIn \in {<<TextNode(t)>> : t \in InputsC}
    /\ cOut = <<>>
    /\ cPc = "in"

IdleC ==
    /\ cIn = <<>>
    /\ cOut = <<>>
    /\ cPc = "idle"

CClean ==
    /\ cPc = "in"
    /\ cOut' = clean_enunciado(cIn)
    /\ cPc' = "done"
    /\ UNCHANGED cIn

(***************************************************************************)
(* C6.  Currency before numeric: a Brazilian-Real literal, R$ (optional    *)
(* space) digit groups with or without "." thousands separators and a      *)
(* mandatory decimal-comma fraction, becomes exactly one BRL token; a      *)
(* percentage or any other number becomes exactly one "número" token.      *)
(***************************************************************************)
\* an integer part: plain digits, or groups of three separated by "."
ClaimIntPart ==
    Alt(<<RepFrom(In(Digit), 1),
          Cat(<<Rep(In(Digit), 1, 3), RepFrom(Cat(<<Lit("."), Rep(In(Digit), 3, 3)>>), 1)>>)>>)

ClaimCurrency ==
    Cat(<<In({"R", "r"}), Lit("$"), Rep(Lit(" "), 0, 1), ClaimIntPart,
          Lit(","), RepFrom(In(Digit), 1)>>)

\* a plain or decimal number, or a percentage
ClaimNumber ==
    Cat(<<ClaimIntPart, Rep(Cat(<<Lit(","), RepFrom(In(Digit), 1)>>), 0, 1),
          Rep(Lit("%"), 0, 1)>>)

\* the whole of t is one match of p
FullMatch(p, t) == \E k \in 1..Len(Ends(p, t, 1)) : Ends(p, t, 1)[k] = Len(t) + 1

C6_CurrencyBeforeNumeric ==
    cPc = "done" =>
        LET t == cIn[1].text
        IN  /\ FullMatch(ClaimCurrency, t) => cOut = <<"B", "R", "L">>
            /\ FullMatch(ClaimNumber, t) => cOut = <<"n", "U00FA", "m", "e", "r", "o">>

(***************************************************************************)
(* HTML text extractor: text_from_html applied to a parsed document.       *)
(***************************************************************************)
NodesH ==
    {[parent |-> "p", comment |-> FALSE, text |-> <<"a">>],
     [parent |-> "p", comment |-> FALSE, text |-> <<" ", "b", "NL">>],
     [parent |-> "p", comment |-> FALSE, text |-> <<"NL">>],
     [parent |-> "[document]", comment |-> FALSE, text |-> <<"d">>],
     [parent |-> "script", comment |-> FALSE, text |-> <<"s", "=", "1">>],
     [parent |-> "style", comment |-> FALSE, text |-> <<"p", "{", "}">>],
     [parent |-> "title", comment |-> FALSE, text |-> <<"t">>],
     [parent |-> "head", comment |-> FALSE, text |-> <<"NL">>],
     [parent |-> "p", comment |-> TRUE, text |-> <<" ", "c", " ">>]}

InitH ==
    /\ hIn \in BoundedSeq(NodesH, MaxNodes)
    /\ hOut = <<>>
    /\ hPc = "in"

IdleH ==
    /\ hIn = <<>>
    /\ hOut = <<>>
    /\ hPc = "idle"

HExtract ==
    /\ hPc = "in"
    /\ hOut' = text_from_html(hIn)
    /\ hPc' = "done"
    /\ UNCHANGED hIn

(***************************************************************************)
(* C2.  Visibility rule: text_from_html returns the stripped text nodes    *)
(* joined by single spaces in document order, without the text nodes whose *)
(* parent is style, script, head, title or meta and without the comments.  *)
(***************************************************************************)
ClaimVisible(node) ==
    /\ node.parent \notin {"style", "script", "head", "title", "meta"}
    /\ ~node.comment

C2_VisibleTextOnly ==
    hPc = "done" =>
        LET shown == SelectSeq(hIn, ClaimVisible)
        IN  hOut = Join([k \in 1..Len(shown) |-> Strip(shown[k].text)], <<" ">>)

(***************************************************************************)
(* Metrics aggregator: merge_metrix_files applied to a directory of        *)
(* per-statement metric files.                                             *)
(***************************************************************************)
MetricNames == {"m1", "m2"}
MetricValues == {1, 2}

\* the tables with the expected columns: one row per metric, no metric twice
TablesM ==
    {t \in BoundedSeq([Metric : MetricNames, Value : MetricValues], Cardinality(MetricNames)) :
        /\ t # <<>>
        /\ \A a, b \in 1..Len(t) : t[a].Metric = t[b].Metric => a = b}

NamesM == [base : {<<"A">>, <<"B">>}, ext : {"", ".csv"}]

\* the directories of at most MaxFiles files, no two of the same name
DirsM ==
    {d \in {{fs[k] : k \in 1..Len(fs)} : fs \in BoundedSeq([name : NamesM, table : TablesM], MaxFiles)} :
        \A e, f \in d : e.name = f.name => e = f}

NoTable == [error |-> "unset", columns |-> <<>>, rows |-> <<>>]

InitM ==
    /\ mDir \in DirsM
    /\ mOut = NoTable
    /\ mPc = "in"

IdleM ==
    /\ mDir = {}
    /\ mOut = NoTable
    /\ mPc = "idle"

MMerge ==
    /\ mPc = "in"
    /\ \E order \in Orders(mDir) : mOut' = merge_metrix_files(order)
    /\ mPc' = "done"
    /\ UNCHANGED mDir

(***************************************************************************)
(* C4.  Metrics merge: one row per file, keyed by the statement id of the  *)
(* file name; the columns are the union of the metric names of all files;  *)
(* the cell (id, metric) holds the value the file of that id gives for     *)
(* that metric, whatever the order and the set of metrics of each file.    *)
(***************************************************************************)
\* the value of row r of the merged table under the column named metric
CellsOf(table, r, metric) ==
    {table.rows[r].values[k] : k \in {j \in 1..Len(table.columns) : table.columns[j] = metric}}

C4_MergeByMetricName ==
    (/\ mPc = "done"
     /\ mDir # {}
     /\ \A e, f \in mDir : e.name.base = f.name.base => e = f) =>
        /\ mOut.error = "none"
        /\ Len(mOut.rows) = Cardinality(mDir)
        /\ {mOut.columns[k] : k \in 1..Len(mOut.columns)}
              = UNION {{e.table[k].Metric : k \in 1..Len(e.table)} : e \in mDir}
        /\ \A e \in mDir : \E r \in 1..Len(mOut.rows) :
              /\ mOut.rows[r].id = e.name.base
              /\ \A k \in 1..Len(e.table) :
                    CellsOf(mOut, r, e.table[k].Metric) = {e.table[k].Value}

(***************************************************************************)
(* Statement pipeline driver: the __main__ block, the browser downloads,   *)
(* and the kill and restart of the driver process.                         *)
(***************************************************************************)
IdA == <<"A">>
IdB == <<"B">>

\* the markup of the two statements of the model
MarkupD == (IdA :> <<"x">>) @@ (IdB :> <<"a", "$", "NL">>)

\* enunciado = remove_special_chars(clean_enunciado(enunciado)) for the
\* markup of each statement of the model, computed once
EnunciadosD ==
    (MarkupD[IdA] :> Enunciados(MarkupD[IdA])) @@ (MarkupD[IdB] :> Enunciados(MarkupD[IdB]))

\* the blocks a dataset is made of: blank ones, the two statements, and
\* blocks that do not hold exactly one field delimiter
BlocksD ==
    {<<>>,
     <<"NL">>,
     IdA \o <<FieldDelimiter>> \o MarkupD[IdA],
     <<" ">> \o IdB \o <<FieldDelimiter>> \o MarkupD[IdB],
     IdA,
     IdA \o <<FieldDelimiter>> \o MarkupD[IdA] \o <<FieldDelimiter>> \o MarkupD[IdA]}

\* the ids of the non-blank blocks
IdsOf(blocks) ==
    {Strip(SplitOn(blocks[k], FieldDelimiter)[1]) :
        k \in {j \in 1..Len(blocks) : ~BlockIsBlank(blocks[j])}}

\* the dataset files of at most MaxBlocks blocks, no id in two blocks
FilesD ==
    {Join(blocks, <<BlockDelimiter>>) :
        blocks \in {b \in BoundedSeq(BlocksD, MaxBlocks) :
                      Cardinality(IdsOf(b)) = Cardinality({j \in 1..Len(b) : ~BlockIsBlank(b[j])})}}

\* a metrics file: the table the tool exported for the text submitted for id
Metrics(id, text) == [kind |-> "file", table |-> CohMetrix(text), of |-> id]
Directory == [kind |-> "dir"]

\* a download directory before the first run: metrics files of earlier work
\* under the name the resume check looks for, and data.csv absent or not a
\* regular file
DownloadDirs ==
    {[name \in {CheckedFile(id) : id \in done} \cup fixed |->
        IF name = Filename THEN Directory
        ELSE Metrics(name.base, CHOOSE text \in EnunciadosD[MarkupD[name.base]] : TRUE)] :
        done \in SUBSET {IdA, IdB}, fixed \in {{}, {Filename}}}

NoError == <<"none">>

InitD ==
    /\ enunciado_file \in FilesD
    /\ txt_dir = <<>>
    /\ download_dir \in DownloadDirs
    /\ inputText = <<>>
    /\ downloading = {}
    /\ pc = "loop"
    /\ pos = 1
    /\ id_questao = <<>>
    /\ enunciado = <<>>
    /\ err = NoError
    /\ closed = FALSE
    /\ merged = NoTable
    /\ run = 1
    /\ kills = 0
    /\ submitted = <<>>
    /\ renamed = {}
    /\ merges = 0

IdleD ==
    /\ enunciado_file = <<>>
    /\ txt_dir = <<>>
    /\ download_dir = <<>>
    /\ inputText = <<>>
    /\ downloading = {}
    /\ pc = "idle"
    /\ pos = 0
    /\ id_questao = <<>>
    /\ enunciado = <<>>
    /\ err = NoError
    /\ closed = FALSE
    /\ merged = NoTable
    /\ run = 0
    /\ kills = 0
    /\ submitted = <<>>
    /\ renamed = {}
    /\ merges = 0

questoes == Questoes(enunciado_file)

\* for q in questoes: the guard on blank blocks, the unpacking of the
\* split, the resume check, clean_enunciado and remove_special_chars
NextBlock ==
    /\ pc = "loop"
    /\ pos <= Len(questoes)
    /\ LET q == questoes[pos]
           fields == SplitOn(q, FieldDelimiter)
       IN  IF BlockIsBlank(q)
           THEN /\ pos' = pos + 1
                /\ UNCHANGED <<pc, id_questao, enunciado, err>>
           ELSE IF Len(fields) # 2
           THEN /\ pc' = "error"
                /\ err' = <<"ValueError", "unpack">>
                /\ UNCHANGED <<pos, id_questao, enunciado>>
           ELSE IF Exists(download_dir, CheckedFile(Strip(fields[1])))
           THEN /\ pos' = pos + 1
                /\ id_questao' = Strip(fields[1])
                /\ enunciado' = fields[2]
                /\ UNCHANGED <<pc, err>>
           ELSE /\ id_questao' = Strip(fields[1])
                /\ enunciado' \in EnunciadosD[fields[2]]
                /\ pc' = "write"
                /\ UNCHANGED <<pos, err>>
    /\ UNCHANGED <<enunciado_file, txt_dir, download_dir, inputText, downloading,
                   closed, merged, run, kills, submitted, renamed, merges>>

\* with open(f'{txt_dir}/{id_questao}.txt', 'w') as arq: arq.write(enunciado)
WriteTxt ==
    /\ pc = "write"
    /\ txt_dir' = (id_questao :> enunciado) @@ txt_dir
    /\ pc' = "submit"
    /\ UNCHANGED <<enunciado_file, download_dir, inputText, downloading,
                   pos, id_questao, enunciado, err, closed, merged,
                   run, kills, submitted, renamed, merges>>

\* inputText.clear(); inputText.send_keys(enunciado); inputText.submit()
Submit ==
    /\ pc = "submit"
    /\ inputText' = [id |-> id_questao, text |-> enunciado]
    /\ submitted' = Append(submitted, [id |-> id_questao, run |-> run])
    /\ pc' = "click"
    /\ UNCHANGED <<enunciado_file, txt_dir, download_dir, downloading,
                   pos, id_questao, enunciado, err, closed, merged,
                   run, kills, renamed, merges>>

\* exportButton.click(): the browser starts to download the metrics of the
\* text on the page
Click ==
    /\ pc = "click"
    /\ downloading' = downloading \cup {Metrics(inputText.id, inputText.text)}
    /\ pc' = "poll"
    /\ UNCHANGED <<enunciado_file, txt_dir, download_dir, inputText,
                   pos, id_questao, enunciado, err, closed, merged,
                   run, kills, submitted, renamed, merges>>

\* rename_downloaded_file(f'{download_dir}/{filename}',
\* f'{download_dir}/{id_questao}'): one turn of the poll loop, or the rename,
\* or the ValueError
RenameDownloadedFile ==
    /\ pc = "poll"
    /\ IF KeepsPolling(download_dir, Filename)
       THEN UNCHANGED <<download_dir, pc, pos, err, renamed>>
       ELSE IF IsFile(download_dir, Filename)
       THEN /\ download_dir' = Rename(download_dir, Filename, NewFile(id_questao))
            /\ renamed' = renamed \cup {[id |-> id_questao, run |-> run]}
            /\ pos' = pos + 1
            /\ pc' = "loop"
            /\ UNCHANGED err
       ELSE /\ pc' = "error"
            /\ err' = <<"ValueError", "coh metrix file not found", Filename>>
            /\ UNCHANGED <<download_dir, pos, renamed>>
    /\ UNCHANGED <<enunciado_file, txt_dir, inputText, downloading,
                   id_questao, enunciado, closed, merged,
                   run, kills, submitted, merges>>

\* browser.close(), after the last block
Close ==
    /\ pc = "loop"
    /\ pos > Len(questoes)
    /\ closed' = TRUE
    /\ pc' = "merge"
    /\ UNCHANGED <<enunciado_file, txt_dir, download_dir, inputText, downloading,
                   pos, id_questao, enunciado, err, merged,
                   run, kills, submitted, renamed, merges>>

\* merge_metrix_files(download_dir, config['output_file']); pd.read_csv
\* fails on an entry that is not a file
Merge ==
    /\ pc = "merge"
    /\ merges' = merges + 1
    /\ IF \E name \in DOMAIN download_dir : download_dir[name].kind # "file"
       THEN /\ pc' = "error"
            /\ err' = <<"IsADirectoryError">>
            /\ UNCHANGED merged
       ELSE \E order \in Orders(Entries(download_dir)) :
              LET table == merge_metrix_files(order)
              IN  IF table.error # "none"
                  THEN /\ pc' = "error"
                       /\ err' = <<table.error>>
                       /\ UNCHANGED merged
                  ELSE /\ pc' = "done"
                       /\ merged' = table
                       /\ UNCHANGED err
    /\ UNCHANGED <<enunciado_file, txt_dir, download_dir, inputText, downloading,
                   pos, id_questao, enunciado, closed,
                   run, kills, submitted, renamed>>

\* the browser delivers a download: under the fixed name, or under another
\* name when the fixed name is taken
DownloadLands ==
    /\ \E file \in downloading :
          /\ downloading' = downloading \ {file}
          /\ download_dir' =
                IF Exists(download_dir, Filename)
                THEN [name \in DOMAIN download_dir \cup {FilenameTaken} |->
                        IF name = FilenameTaken THEN file ELSE download_dir[name]]
                ELSE (Filename :> file) @@ download_dir
    /\ UNCHANGED <<enunciado_file, txt_dir, inputText,
                   pc, pos, id_questao, enunciado, err, closed, merged,
                   run, kills, submitted, renamed, merges>>

Running == pc \in {"loop", "write", "submit", "click", "poll", "merge"}

\* the driver process is killed at any step
Kill ==
    /\ Running
    /\ kills < MaxKills
    /\ kills' = kills + 1
    /\ pc' = "killed"
    /\ UNCHANGED <<enunciado_file, txt_dir, download_dir, inputText, downloading,
                   pos, id_questao, enunciado, err, closed, merged,
                   run, submitted, renamed, merges>>

\* the driver is started again over the same dataset and directories
Restart ==
    /\ pc \in {"done", "error", "killed"}
    /\ run < MaxRuns
    /\ run' = run + 1
    /\ pc' = "loop"
    /\ pos' = 1
    /\ id_questao' = <<>>
    /\ enunciado' = <<>>
    /\ inputText' = <<>>
    /\ err' = NoError
    /\ closed' = FALSE
    /\ merged' = NoTable
    /\ merges' = 0
    /\ UNCHANGED <<enunciado_file, txt_dir, download_dir, downloading,
                   kills, submitted, renamed>>

(***************************************************************************)
(* C1.  Resume: a statement that an earlier run completed (submitted,      *)
(* downloaded and renamed by rename_downloaded_file) is not submitted      *)
(* again by a later run over the same dataset.                             *)
(***************************************************************************)
C1_ResumeSkipsCompleted ==
    \A k \in 1..Len(submitted) :
        ~\E done \in renamed :
            done.id = submitted[k].id /\ done.run < submitted[k].run

(***************************************************************************)
(* C3.  Dataset block handling, as stated: no block raises an error from   *)
(* the unpacking of its split, whatever its content.                       *)
(***************************************************************************)
C3_MalformedSkippedSilently == err # <<"ValueError", "unpack">>

\* the block has only whitespace
ClaimBlank(q) == \A k \in 1..Len(q) : q[k] \in Whitespace

\* the block has exactly one field delimiter
ClaimWellFormed(q) == Cardinality({k \in 1..Len(q) : q[k] = FieldDelimiter}) = 1

\* the driver looks at block pos and the process is not killed in this step
LooksAtBlock ==
    /\ pc = "loop"
    /\ pos <= Len(questoes)
    /\ pc' # "killed"
    /\ <<pc, pos, id_questao, enunciado, err>>' # <<pc, pos, id_questao, enunciado, err>>

(***************************************************************************)
(* C3, amended.  A block that is empty or has only whitespace is skipped   *)
(* silently: no error, nothing written, nothing submitted, and the driver  *)
(* goes on with the next block.  A non-blank block that does not hold      *)
(* exactly one '#;#;#' ends the run with the ValueError of the unpacking,  *)
(* before anything is written or submitted for it, and the blocks after    *)
(* it are not processed.                                                   *)
(***************************************************************************)
C3_BlankSkippedMalformedAborts ==
    [][LooksAtBlock =>
          /\ ClaimBlank(questoes[pos]) =>
                /\ pos' = pos + 1
                /\ pc' = "loop"
                /\ err' = NoError
                /\ UNCHANGED <<txt_dir, download_dir, submitted, inputText>>
          /\ (~ClaimBlank(questoes[pos]) /\ ~ClaimWellFormed(questoes[pos])) =>
                /\ pc' = "error"
                /\ err' = <<"ValueError", "unpack">>
                /\ pos' = pos
                /\ UNCHANGED <<txt_dir, download_dir, submitted, inputText>>
      ]_vars

\* a whitespace-only block was skipped and the malformed block after it has
\* ended the run
C3_Witness ==
    /\ pc = "error"
    /\ err = <<"ValueError", "unpack">>
    /\ pos = 2
    /\ questoes[1] = <<"NL">>
    /\ ~ClaimWellFormed(questoes[2])
    /\ submitted = <<>>

(***************************************************************************)
(* C7.  Strict one-at-a-time ordering: when the text of a statement is     *)
(* submitted after another statement of the same run, the download of the  *)
(* earlier one has been renamed: no file has the fixed download name and   *)
(* no download is in flight.                                               *)
(***************************************************************************)
C7_OneAtATime ==
    [][(/\ Len(submitted') = Len(submitted) + 1
        /\ \E k \in 1..Len(submitted) : submitted[k].run = run)
          => /\ ~Exists(download_dir, Filename)
             /\ downloading = {}
      ]_vars

(***************************************************************************)
(* C10.  Metrics attribution across crash and restart: in every reachable  *)
(* state each file of the download directory that is named by a statement  *)
(* id holds the metrics the tool produced for that statement's submission. *)
(***************************************************************************)
C10_Attribution ==
    \A name \in DOMAIN download_dir :
        (name.base \in {IdA, IdB} /\ download_dir[name].kind = "file")
            => download_dir[name].of = name.base

ClaimDatasetWellFormed ==
    \A k \in 1..Len(questoes) :
        ClaimBlank(questoes[k]) \/ ClaimWellFormed(questoes[k])

\* every statement of the dataset was submitted or has its metrics file
ClaimAllProcessed ==
    \A id \in IdsOf(questoes) :
        \/ \E k \in 1..Len(submitted) : submitted[k].id = id
        \/ Exists(download_dir, CheckedFile(id))

InitTranslit == InitT /\ IdleC /\ IdleH /\ IdleM /\ IdleD

NextTranslit ==
    \/ TApply /\ UNCHANGED <<varsC, varsH, varsM, varsD>>
    \/ TApplyAgain /\ UNCHANGED <<varsC, varsH, varsM, varsD>>

SpecTranslit == InitTranslit /\ [][NextTranslit]_vars

InitClean == InitC /\ IdleT /\ IdleH /\ IdleM /\ IdleD

NextClean == CClean /\ UNCHANGED <<varsT, varsH, varsM, varsD>>

SpecClean == InitClean /\ [][NextClean]_vars

InitHtml == InitH /\ IdleT /\ IdleC /\ IdleM /\ IdleD

NextHtml == HExtract /\ UNCHANGED <<varsT, varsC, varsM, varsD>>

SpecHtml == InitHtml /\ [][NextHtml]_vars

InitMerge == InitM /\ IdleT /\ IdleC /\ IdleH /\ IdleD

NextMerge == MMerge /\ UNCHANGED <<varsT, varsC, varsH, varsD>>

SpecMerge == InitMerge /\ [][NextMerge]_vars

Init == InitD /\ IdleT /\ IdleC /\ IdleH /\ IdleM

\* one step of the driver process
DriverStep ==
    \/ NextBlock /\ UNCHANGED <<varsT, varsC, varsH, varsM>>
    \/ WriteTxt /\ UNCHANGED <<varsT, varsC, varsH, varsM>>
    \/ Submit /\ UNCHANGED <<varsT, varsC, varsH, varsM>>
    \/ Click /\ UNCHANGED <<varsT, varsC, varsH, varsM>>
    \/ RenameDownloadedFile /\ UNCHANGED <<varsT, varsC, varsH, varsM>>
    \/ Close /\ UNCHANGED <<varsT, varsC, varsH, varsM>>
    \/ Merge /\ UNCHANGED <<varsT, varsC, varsH, varsM>>

\* one step of the browser
BrowserStep == DownloadLands /\ UNCHANGED <<varsT, varsC, varsH, varsM>>

NextRun == DriverStep \/ BrowserStep

Next ==
    \/ DriverStep
    \/ BrowserStep
    \/ Kill /\ UNCHANGED <<varsT, varsC, varsH, varsM>>
    \/ Restart /\ UNCHANGED <<varsT, varsC, varsH, varsM>>

\* the driver with kills and restarts
Spec == Init /\ [][Next]_vars

\* one run of the driver to its end: the driver process is scheduled as long
\* as it can take a step, and the browser delivers every download it started
FairSpec ==
    /\ Init
    /\ [][NextRun]_vars
    /\ WF_vars(DriverStep)
    /\ WF_vars(BrowserStep)

====
